---- MODULE Spec2Model ----
(***************************************************************************)
(* Resume screening workflow (workflow.py, chains.py): the batch runner    *)
(* process_multiple_resumes, the per-resume LangGraph state machine and    *)
(* the three chain helpers; and the Streamlit page that calls the batch    *)
(* runner (app.py).                                                        *)
(*                                                                         *)
(* Text is a sequence of string tokens; an f-string is the concatenation   *)
(* of its parts, the empty string is <<>>.  A Python number is a fraction  *)
(* n/d, a value of another type carries its kind.  A value decoded by      *)
(* JsonOutputParser is an object with its kind (dict, list, str, scalar),  *)
(* the keys present when it is a dict and its items when it is a list or   *)
(* a string.                                                               *)
(***************************************************************************)
EXTENDS Integers, Sequences, FiniteSets, TLC

VARIABLES resume_files, jd, i, pc, state, results, files, tmp_path,
          exc, trace,
          session_state, jd_files, invoked, runs, shown, upload

vars == <<resume_files, jd, i, pc, state, results, files, tmp_path,
          exc, trace,
          session_state, jd_files, invoked, runs, shown, upload>>

\* the state of the Streamlit page (app.py)
page == <<session_state, jd_files, invoked, runs, shown, upload>>

(* ------------------------------ bounds -------------------------------- *)

MaxResumes == 2
MaxGaps == 5
\* script runs of the page, and files in one upload
MaxRuns == 2
MaxUploads == 11

(* ------------------------- program constants -------------------------- *)

LowScore == 50
TopGaps == 3
\* app.py: at most 10 resumes of at most 5MB
MaxFiles == 10
MaxBytes == 5 * 1024 * 1024

(* ------------------------------ values -------------------------------- *)

Min(a, b) == IF a < b THEN a ELSE b

Num(n, d) == [k |-> "num", n |-> n, d |-> d]
NonNum(kind) == [k |-> kind, n |-> 0, d |-> 1]

\* str.strip() of a text is empty
IsBlank(text) == \A j \in 1..Len(text) : text[j] \in {" ", "\n"}

\* truthiness of a str or a list
Truthy(v) == v # <<>>

NoExc == [raised |-> FALSE, msg |-> <<>>]
Raise(msg) == [raised |-> TRUE, msg |-> msg]

\* resume_data objects
ResumeObj(kind, keys, err, items) ==
    [k |-> kind, keys |-> keys, error |-> err, items |-> items]
EmptyResumeData == ResumeObj("dict", {}, <<>>, <<>>)

\* match_data objects
MatchObj(kind, keys, matches, gaps, err, items) ==
    [k |-> kind, keys |-> keys, matches |-> matches, gaps |-> gaps,
     error |-> err, items |-> items]
EmptyMatchData == MatchObj("dict", {}, <<>>, <<>>, <<>>, <<>>)

\* score_data objects
ScoreObj(kind, keys, score, reasons, suggestions, err) ==
    [k |-> kind, keys |-> keys, score |-> score, reasons |-> reasons,
     suggestions |-> suggestions, error |-> err]

\* x.get(...) raises AttributeError unless x is a dict
AttributeErrorMsg(kind) == <<"'", kind, "' object has no attribute 'get'">>
\* "error" in x raises TypeError when x is not a container
NotIterableMsg(kind) == <<"argument of type '", kind, "' is not iterable">>
\* x["error"] raises TypeError when x is a list or a str
IndexErrorMsg(kind) == <<kind, " indices must be integers">>
\* score < 50 raises TypeError when score is not a number
NotComparableMsg(kind) ==
    <<"'<' not supported between instances of '", kind, "' and 'int'">>

\* "error" in x, for a container x
Contains(x) ==
    IF x.k = "dict" THEN "error" \in x.keys
    ELSE \E j \in 1..Len(x.items) : x.items[j] = "error"

(* ------------------- collaborators: what they may answer --------------- *)

GapPool == <<"Kubernetes", "AWS", "Leadership", "Security", "Testing",
             "Docker", "SQL">>
GapLists == { SubSeq(GapPool, 1, n) : n \in 0..MaxGaps }

ReaderMsg == <<"file is damaged">>
\* the oracle call itself fails (network, key, quota)
OracleMsg == <<"quota exceeded">>
\* the oracle answers, JsonOutputParser cannot decode the answer
ParseMsg == <<"Invalid json output">>
ChainFailures == {OracleMsg, ParseMsg}

\* PyPDFLoader(path).load() joined page contents, or the exception raised
ReaderOutcomes ==
    { [raised |-> FALSE, msg |-> <<>>, text |-> t] :
        t \in { <<"Python developer, 5 years">>, <<>>, <<" ", "\n">> } }
    \cup { [raised |-> TRUE, msg |-> ReaderMsg, text |-> <<>>] }

Returned(v) == [raised |-> FALSE, msg |-> <<>>, val |-> v]

\* chain.invoke of the extraction chain
ExtractionOutcomes ==
    { Returned(v) :
        v \in { ResumeObj("dict", {"skills", "experience", "education"}, <<>>, <<>>),
                ResumeObj("list", {}, <<>>, <<"Python">>),
                ResumeObj("str", {}, <<>>, <<"an", "error", "occurred">>),
                ResumeObj("int", {}, <<>>, <<>>) } }
    \cup { [raised |-> TRUE, msg |-> m, val |-> EmptyResumeData] : m \in ChainFailures }

\* chain.invoke of the matching chain
MatchingOutcomes ==
    { Returned(MatchObj("dict", {"matches", "gaps"}, <<"Python">>, g, <<>>, <<>>)) :
        g \in GapLists }
    \cup { Returned(EmptyMatchData),
           Returned(MatchObj("list", {}, <<>>, <<>>, <<>>, <<"Python">>)) }
    \cup { Returned(MatchObj("dict", {"matches", "gaps", "error"}, <<>>,
                             <<"Kubernetes">>, <<"resume is unreadable">>, <<>>)) }
    \cup { [raised |-> TRUE, msg |-> m, val |-> EmptyMatchData] : m \in ChainFailures }

OracleReasons == << <<"strong skill match">> >>
OracleSuggestions == << <<"Acquire skill Y">> >>

ScoreValues ==
    { Num(82, 1), Num(35, 1), Num(50, 1), Num(150, 1), Num(0 - 5, 1),
      Num(145, 2), NonNum("str"), NonNum("NoneType") }

EmptyScoreData == ScoreObj("dict", {}, Num(0, 1), <<>>, <<>>, <<>>)

\* chain.invoke of the scoring chain
ScoringOutcomes ==
    { Returned(ScoreObj("dict", {"score", "reasons", "suggestions"}, s,
                        OracleReasons, <<>>, <<>>)) : s \in ScoreValues }
    \cup { Returned(ScoreObj("dict", {"score", "reasons", "suggestions"},
                             Num(35, 1), OracleReasons, OracleSuggestions, <<>>)),
           Returned(EmptyScoreData),
           Returned(ScoreObj("list", {}, Num(0, 1), <<>>, <<>>, <<>>)) }
    \cup { [raised |-> TRUE, msg |-> m, val |-> EmptyScoreData] : m \in ChainFailures }

(* ------------------------------ chains.py ----------------------------- *)

\* a call of a collaborator and how it ended: the exception raised, or the
\* reader's text, or the kind and keys of the answer chain.invoke decoded
ReaderCall(out) ==
    [who |-> "reader", raised |-> out.raised, msg |-> out.msg,
     text |-> out.text, kind |-> "str", keys |-> {}]
OracleCall(who, out) ==
    [who |-> who, raised |-> out.raised, msg |-> out.msg,
     text |-> <<>>, kind |-> out.val.k, keys |-> out.val.keys]

\* faulty variant: a failed invocation is tried once more
extract_resume_data_retry(resume_text, out) ==
    [ val |-> IF out.raised
              THEN ResumeObj("dict", {"skills", "experience", "education", "error"},
                             out.msg, <<>>)
              ELSE out.val,
      called |-> IF out.raised
                 THEN <<OracleCall("extraction", out), OracleCall("extraction", out)>>
                 ELSE <<OracleCall("extraction", out)>> ]

\* extract_resume_data: the decoded answer, or the error dict of the except
extract_resume_data(resume_text, out) ==
    [ val |-> IF out.raised
              THEN ResumeObj("dict", {"skills", "experience", "education", "error"},
                             out.msg, <<>>)
              ELSE out.val,
      called |-> <<OracleCall("extraction", out)>> ]

MatchError(msg) ==
    MatchObj("dict", {"matches", "gaps", "error"}, <<>>, <<>>, msg, <<>>)

\* match_to_jd: resume_data.get(...) is evaluated inside the try, before invoke
match_to_jd(jd_text, resume_data, out) ==
    IF resume_data.k # "dict"
    THEN [ val |-> MatchError(AttributeErrorMsg(resume_data.k)), called |-> <<>> ]
    ELSE [ val |-> IF out.raised THEN MatchError(out.msg) ELSE out.val,
           called |-> <<OracleCall("matching", out)>> ]

ScoreError(msg) ==
    ScoreObj("dict", {"score", "reasons", "suggestions", "error"}, Num(0, 1),
             << <<"Error in scoring">> >>, <<>>, msg)

\* score_candidate: match_data.get(...) and resume_data.get(...) are evaluated
\* inside the try, before invoke
score_candidate(jd_text, resume_data, match_data, out) ==
    IF match_data.k # "dict"
    THEN [ val |-> ScoreError(AttributeErrorMsg(match_data.k)), called |-> <<>> ]
    ELSE IF resume_data.k # "dict"
    THEN [ val |-> ScoreError(AttributeErrorMsg(resume_data.k)), called |-> <<>> ]
    ELSE [ val |-> IF out.raised THEN ScoreError(out.msg) ELSE out.val,
           called |-> <<OracleCall("scoring", out)>> ]

(* ----------------------------- workflow.py ---------------------------- *)

\* the nodes return the state they leave and the oracle calls they made
Ran(st, called) == [st |-> st, called |-> called]

\* faulty variant: the text is tested without strip()
load_resume_unstripped(s, out) ==
    IF out.raised
    THEN [s EXCEPT !.error = <<"PDF loading error: ">> \o out.msg,
                   !.resume_text = <<>>]
    ELSE IF out.text = <<>>
    THEN [s EXCEPT !.error = <<"Empty PDF or failed to extract text">>,
                   !.resume_text = <<>>]
    ELSE [s EXCEPT !.resume_text = out.text, !.error = <<>>]

load_resume(s, out) ==
    IF out.raised
    THEN [s EXCEPT !.error = <<"PDF loading error: ">> \o out.msg,
                   !.resume_text = <<>>]
    ELSE IF IsBlank(out.text)
    THEN [s EXCEPT !.error = <<"Empty PDF or failed to extract text">>,
                   !.resume_text = <<>>]
    ELSE [s EXCEPT !.resume_text = out.text, !.error = <<>>]

\* extract_data past its guard: the try block and its except
extract_with_oracle(s, out) ==
    LET r == extract_resume_data(s.resume_text, out)
        rd == r.val
        s1 == [s EXCEPT !.resume_data = rd]
        failed(msg) == [s1 EXCEPT !.error = <<"Data extraction error: ">> \o msg,
                                  !.resume_data = EmptyResumeData]
    IN  Ran(IF rd.k \notin {"dict", "list", "str"}
            THEN failed(NotIterableMsg(rd.k))
            ELSE IF ~Contains(rd) THEN s1
            ELSE IF rd.k # "dict" THEN failed(IndexErrorMsg(rd.k))
            ELSE [s1 EXCEPT !.error = <<"Extraction error: ">> \o rd.error],
            r.called)

\* faulty variant: the short-circuit on a pre-existing error is missing
extract_data_unguarded(s, out) == extract_with_oracle(s, out)

extract_data(s, out) ==
    IF Truthy(s.error) THEN Ran(s, <<>>) ELSE extract_with_oracle(s, out)

\* match_jd past its guard: the try block and its except
match_with_oracle(s, out) ==
    LET r == match_to_jd(s.jd, s.resume_data, out)
        md == r.val
        s1 == [s EXCEPT !.match_data = md]
        failed(msg) == [s1 EXCEPT !.error = <<"JD matching error: ">> \o msg,
                                  !.match_data = EmptyMatchData]
    IN  Ran(IF md.k \notin {"dict", "list", "str"}
            THEN failed(NotIterableMsg(md.k))
            ELSE IF ~Contains(md) THEN s1
            ELSE IF md.k # "dict" THEN failed(IndexErrorMsg(md.k))
            ELSE [s1 EXCEPT !.error = <<"Matching error: ">> \o md.error],
            r.called)

\* faulty variant: the short-circuit on a pre-existing error is missing
match_jd_unguarded(s, out) == match_with_oracle(s, out)

match_jd(s, out) ==
    IF Truthy(s.error) THEN Ran(s, <<>>) ELSE match_with_oracle(s, out)

\* score_candidate_node past its guard: the try block and its except
score_with_oracle(s, out) ==
    LET r == score_candidate(s.jd, s.resume_data, s.match_data, out)
        sd == r.val
        get(key, val, default) == IF key \in sd.keys THEN val ELSE default
        s1 == [s EXCEPT !.score = get("score", sd.score, Num(0, 1)),
                        !.reasons = get("reasons", sd.reasons, <<>>),
                        !.suggestions = get("suggestions", sd.suggestions, <<>>)]
        msg == AttributeErrorMsg(sd.k)
    IN  Ran(IF sd.k # "dict"
            THEN [s EXCEPT !.error = <<"Candidate scoring error: ">> \o msg,
                           !.score = Num(0, 1),
                           !.reasons = << <<"Scoring failed: ">> \o msg >>,
                           !.suggestions = <<>>]
            ELSE IF "error" \in sd.keys
            THEN [s1 EXCEPT !.error = <<"Scoring error: ">> \o sd.error]
            ELSE s1,
            r.called)

\* faulty variant: the guard on a pre-existing error is missing
score_candidate_node_unguarded(s, out) == score_with_oracle(s, out)

score_candidate_node(s, out) ==
    IF Truthy(s.error)
    THEN Ran([s EXCEPT !.score = Num(0, 1),
                       !.reasons = << <<"Processing failed: ">> \o s.error >>,
                       !.suggestions = <<>>],
             <<>>)
    ELSE score_with_oracle(s, out)

\* score < 50 on Python numbers
LessThan(v, bound) == v.n < bound * v.d

\* faulty variant: a failed resume goes straight to END
should_suggest_improvements_spares_failed(s) ==
    IF s.score.k # "num" THEN "raise"
    ELSE IF Truthy(s.error) THEN "end"
    ELSE IF s.score.n < LowScore * s.score.d THEN "suggest"
    ELSE "end"

\* faulty variant: the threshold itself counts as low
should_suggest_improvements_inclusive(s) ==
    IF s.score.k # "num" THEN "raise"
    ELSE IF s.score.n <= LowScore * s.score.d THEN "suggest"
    ELSE "end"

\* the conditional edge: "suggest", "end", or the TypeError of the comparison
should_suggest_improvements(s) ==
    IF s.score.k # "num" THEN "raise"
    ELSE IF LessThan(s.score, LowScore) THEN "suggest"
    ELSE "end"

Template(gap) == <<"Develop skills/experience in: ", gap>>
Generic == <<"Consider gaining more relevant experience">>

\* faulty variant: every gap is kept
Slice_all(gaps, n) == gaps

\* gaps[:3]
Slice(gaps, n) == SubSeq(gaps, 1, Min(n, Len(gaps)))

\* faulty variant: the entries are added whether or not suggestions is empty
suggest_improvements_always(s) ==
    IF s.match_data.k # "dict"
    THEN [exc |-> Raise(AttributeErrorMsg(s.match_data.k)), st |-> s]
    ELSE LET gaps == IF "gaps" \in s.match_data.keys THEN s.match_data.gaps ELSE <<>>
             top == Slice(gaps, TopGaps)
         IN  [exc |-> NoExc,
              st |-> [s EXCEPT !.suggestions = @ \o
                        IF Truthy(gaps)
                        THEN [j \in 1..Len(top) |-> Template(top[j])]
                        ELSE <<Generic>>]]

\* the state it returns, or the AttributeError of match_data.get
suggest_improvements(s) ==
    IF Truthy(s.suggestions) THEN [exc |-> NoExc, st |-> s]
    ELSE IF s.match_data.k # "dict"
    THEN [exc |-> Raise(AttributeErrorMsg(s.match_data.k)), st |-> s]
    ELSE LET gaps == IF "gaps" \in s.match_data.keys THEN s.match_data.gaps ELSE <<>>
             top == Slice(gaps, TopGaps)
         IN  [exc |-> NoExc,
              st |-> [s EXCEPT !.suggestions =
                        IF Truthy(gaps)
                        THEN [j \in 1..Len(top) |-> Template(top[j])]
                        ELSE <<Generic>>]]

\* faulty variant: error outlives the previous resume
initial_state_stale(jd_text, path, name) ==
    [jd |-> jd_text, resume_file_path |-> path, resume_text |-> <<>>,
     resume_data |-> EmptyResumeData, match_data |-> EmptyMatchData,
     score |-> Num(0, 1), reasons |-> <<>>, suggestions |-> <<>>,
     candidate_name |-> name,
     error |-> IF results = <<>> THEN <<>> ELSE results[Len(results)].error]

initial_state(jd_text, path, name) ==
    [jd |-> jd_text, resume_file_path |-> path, resume_text |-> <<>>,
     resume_data |-> EmptyResumeData, match_data |-> EmptyMatchData,
     score |-> Num(0, 1), reasons |-> <<>>, suggestions |-> <<>>,
     candidate_name |-> name, error |-> <<>>]

\* faulty variant: matches and gaps are taken from each other's key
Record_swapped(name, s) ==
    [candidate |-> name, score |-> s.score, reasons |-> s.reasons,
     suggestions |-> s.suggestions,
     matches |-> IF "gaps" \in s.match_data.keys THEN s.match_data.gaps ELSE <<>>,
     gaps |-> IF "matches" \in s.match_data.keys THEN s.match_data.matches ELSE <<>>,
     error |-> s.error]

\* the record process_resume returns for the final state
Record(name, s) ==
    [candidate |-> name, score |-> s.score, reasons |-> s.reasons,
     suggestions |-> s.suggestions,
     matches |-> IF "matches" \in s.match_data.keys THEN s.match_data.matches ELSE <<>>,
     gaps |-> IF "gaps" \in s.match_data.keys THEN s.match_data.gaps ELSE <<>>,
     error |-> s.error]

(* -------------------------- the state machine ------------------------- *)

NamePool == <<"alice.pdf", "bob.pdf", "carol.pdf", "dave.pdf">>
JDs == { <<"Needs Python, 3+ years">> }

\* the arguments of process_multiple_resumes
Batches == { [j \in 1..n |-> <<NamePool[j], "%PDF">>] : n \in 0..MaxResumes }

\* no run of the workflow is in progress
Idle == initial_state(<<>>, 0, "")

\* what a node did: the state it left and the oracle calls it made
Visit(node, st, called) == [node |-> node, out |-> st, called |-> called]

\* st.session_state without, and with, the key "results"
NoResults == [present |-> FALSE, results |-> <<>>]
Stored(rs) == [present |-> TRUE, results |-> rs]

\* what a script run has put on the page: the sidebar's and the main part's
NoMessages == [sidebar |-> "", main |-> ""]

\* len(f.getvalue()) of the largest file of a list of (name, size) pairs
Largest(fs) ==
    IF fs = <<>> THEN 0
    ELSE CHOOSE m \in { fs[j][2] : j \in 1..Len(fs) } :
             \A j \in 1..Len(fs) : fs[j][2] <= m

\* how many files a list has and how large its largest is
Summary(fs) == [count |-> Len(fs), largest |-> Largest(fs)]

Init ==
    /\ resume_files \in Batches
    /\ jd \in JDs
    /\ i = 0
    /\ pc = "for"
    /\ results = <<>>
    /\ state = Idle
    /\ files = {}
    /\ tmp_path = 0
    /\ exc = NoExc
    /\ trace = <<>>
    /\ session_state = NoResults
    /\ jd_files = {}
    /\ invoked = <<>>
    /\ runs = 0
    /\ shown = NoMessages
    /\ upload = Summary(<<>>)

\* for file_name, file_content in resume_files: the temporary file is
\* created and written, tmp_path is bound
CreateTemp ==
    /\ pc = "for"
    /\ i < Len(resume_files)
    /\ i' = i + 1
    /\ files' = files \cup {i + 1}
    /\ tmp_path' = i + 1
    /\ pc' = "process_resume"
    /\ UNCHANGED page
    /\ UNCHANGED <<resume_files, jd, state, results, exc, trace>>

\* tmp_file.write raises: the file exists (delete=False), the with block is
\* outside the try
CreateTempFails ==
    /\ pc = "for"
    /\ i < Len(resume_files)
    /\ i' = i + 1
    /\ files' = files \cup {i + 1}
    /\ exc' = Raise(<<"No space left on device">>)
    /\ pc' = "raised"
    /\ UNCHANGED page
    /\ UNCHANGED <<resume_files, jd, state, results, tmp_path, trace>>

\* process_resume up to workflow.invoke(initial_state)
ProcessResume ==
    /\ pc = "process_resume"
    /\ state' = initial_state(jd, tmp_path, resume_files[i][1])
    /\ trace' = <<>>
    /\ pc' = "load_resume"
    /\ UNCHANGED page
    /\ UNCHANGED <<resume_files, jd, i, results, files, tmp_path, exc>>

LoadResume ==
    /\ pc = "load_resume"
    /\ \E out \in ReaderOutcomes :
         /\ state' = load_resume(state, out)
         /\ trace' = Append(trace, Visit("load_resume", state',
                                      <<ReaderCall(out)>>))
    /\ pc' = "extract_data"
    /\ UNCHANGED page
    /\ UNCHANGED <<resume_files, jd, i, results, files, tmp_path, exc>>

ExtractData ==
    /\ pc = "extract_data"
    /\ \E out \in ExtractionOutcomes :
         LET r == extract_data(state, out)
         IN  /\ state' = r.st
             /\ trace' = Append(trace, Visit("extract_data", r.st, r.called))
    /\ pc' = "match_jd"
    /\ UNCHANGED page
    /\ UNCHANGED <<resume_files, jd, i, results, files, tmp_path, exc>>

MatchJD ==
    /\ pc = "match_jd"
    /\ \E out \in MatchingOutcomes :
         LET r == match_jd(state, out)
         IN  /\ state' = r.st
             /\ trace' = Append(trace, Visit("match_jd", r.st, r.called))
    /\ pc' = "score_candidate"
    /\ UNCHANGED page
    /\ UNCHANGED <<resume_files, jd, i, results, files, tmp_path, exc>>

ScoreCandidate ==
    /\ pc = "score_candidate"
    /\ \E out \in ScoringOutcomes :
         LET r == score_candidate_node(state, out)
         IN  /\ state' = r.st
             /\ trace' = Append(trace, Visit("score_candidate", r.st, r.called))
    /\ pc' = "route"
    /\ UNCHANGED page
    /\ UNCHANGED <<resume_files, jd, i, results, files, tmp_path, exc>>

\* add_conditional_edges("score_candidate", should_suggest_improvements, ...)
Route ==
    /\ pc = "route"
    /\ LET to == should_suggest_improvements(state)
       IN  /\ pc' = CASE to = "suggest" -> "suggest_improvements"
                      [] to = "end" -> "END"
                      [] OTHER -> "finally"
           /\ exc' = IF to = "raise" THEN Raise(NotComparableMsg(state.score.k))
                     ELSE exc
    /\ UNCHANGED page
    /\ UNCHANGED <<resume_files, jd, i, state, results, files, tmp_path, trace>>

SuggestImprovements ==
    /\ pc = "suggest_improvements"
    /\ LET r == suggest_improvements(state)
       IN  /\ state' = r.st
           /\ trace' = Append(trace, Visit("suggest_improvements", r.st, <<>>))
           /\ exc' = r.exc
           /\ pc' = IF r.exc.raised THEN "finally" ELSE "END"
    /\ UNCHANGED page
    /\ UNCHANGED <<resume_files, jd, i, results, files, tmp_path>>

\* process_resume's return and results.append(result)
Project ==
    /\ pc = "END"
    /\ IF state.match_data.k # "dict"
       THEN /\ exc' = Raise(AttributeErrorMsg(state.match_data.k))
            /\ results' = results
       ELSE /\ exc' = exc
            /\ results' = Append(results, Record(resume_files[i][1], state))
    /\ pc' = "finally"
    /\ UNCHANGED page
    /\ UNCHANGED <<resume_files, jd, i, state, files, tmp_path, trace>>

\* finally: os.remove(tmp_path); an exception in flight leaves the loop
Finally ==
    /\ pc = "finally"
    /\ files' = files \ {tmp_path}
    /\ pc' = IF exc.raised THEN "raised" ELSE "for"
    /\ state' = Idle
    /\ trace' = <<>>
    /\ UNCHANGED page
    /\ UNCHANGED <<resume_files, jd, i, results, tmp_path, exc>>

\* return results
Return ==
    /\ pc = "for"
    /\ i = Len(resume_files)
    /\ pc' = "returned"
    /\ UNCHANGED page
    /\ UNCHANGED <<resume_files, jd, i, state, results, files, tmp_path, exc, trace>>

Next ==
    \/ CreateTemp
    \/ CreateTempFails
    \/ ProcessResume
    \/ LoadResume
    \/ ExtractData
    \/ MatchJD
    \/ ScoreCandidate
    \/ Route
    \/ SuggestImprovements
    \/ Project
    \/ Finally
    \/ Return

Spec == Init /\ [][Next]_vars

(* --------------------------------- app.py ----------------------------- *)

\* the answers the collaborators give to every resume of a batch the page
\* starts: all succeed, the reader fails, the oracle scores with a string
Scripts ==
    LET reads == [raised |-> FALSE, msg |-> <<>>, text |-> <<"Python developer, 5 years">>]
        profile == Returned(ResumeObj("dict", {"skills", "experience", "education"},
                                      <<>>, <<>>))
        match == Returned(MatchObj("dict", {"matches", "gaps"}, <<"Python">>,
                                   <<"Kubernetes">>, <<>>, <<>>))
        scores(v) == Returned(ScoreObj("dict", {"score", "reasons", "suggestions"}, v,
                                       OracleReasons, <<>>, <<>>))
        script(r, v) == [reader |-> r, extraction |-> profile, matching |-> match,
                         scoring |-> scores(v)]
    IN  { script(reads, Num(82, 1)),
          script([raised |-> TRUE, msg |-> ReaderMsg, text |-> <<>>], Num(82, 1)),
          script(reads, NonNum("str")) }

\* process_resume as a function of its arguments and the collaborators'
\* answers: the record, or that an exception left it
process_resume(jd_text, path, name, script) ==
    LET s1 == load_resume(initial_state(jd_text, path, name), script.reader)
        s2 == extract_data(s1, script.extraction).st
        s3 == match_jd(s2, script.matching).st
        s4 == score_candidate_node(s3, script.scoring).st
        to == should_suggest_improvements(s4)
        r5 == suggest_improvements(s4)
        final == IF to = "suggest" THEN r5.st ELSE s4
    IN  [ raised |-> \/ to = "raise"
                     \/ to = "suggest" /\ r5.exc.raised
                     \/ final.match_data.k # "dict",
          record |-> Record(name, final) ]

\* process_multiple_resumes for a list of (name, content) pairs, the content
\* given by its length: the records, or that an exception left it
process_multiple_resumes(jd_text, resume_data, script) ==
    LET run(j) == process_resume(jd_text, j, resume_data[j][1], script)
    IN  [ raised |-> \E j \in 1..Len(resume_data) : run(j).raised,
          results |-> [j \in 1..Len(resume_data) |-> run(j).record] ]

UploadNames == <<"alice.pdf", "bob.pdf", "carol.pdf">>

\* what st.file_uploader may hold: n files of one byte, the last of them
\* possibly of exactly, or one byte more than, 5MB
Uploads ==
    { [j \in 1..n |-> <<UploadNames[(j % 3) + 1], IF j = n THEN last ELSE 1>>] :
        n \in {0, 1, 2} \cup (MaxFiles - 1)..MaxUploads,
        last \in {1, MaxBytes, MaxBytes + 1} }

\* the job description widgets: the text area, or the uploader with no file,
\* or with a file whose temporary copy cannot be written, cannot be loaded,
\* or is loaded
JDInputs ==
    { [method |-> "Text", file |-> FALSE, written |-> FALSE, loaded |-> FALSE,
       text |-> t] : t \in JDs \cup {<<>>} }
    \cup { [method |-> "PDF Upload", file |-> FALSE, written |-> FALSE,
            loaded |-> FALSE, text |-> <<>>] }
    \cup { [method |-> "PDF Upload", file |-> TRUE, written |-> w, loaded |-> l,
            text |-> t] :
             w \in BOOLEAN, l \in BOOLEAN, t \in JDs \cup {<<>>} }

\* faulty variant: only the number of files is checked
validate_count_only(fs) ==
    IF Len(fs) > MaxFiles THEN "Maximum 10 resumes allowed per session"
    ELSE ""

\* the validation of the screen_button handler: the error shown, "" for none
validate(fs) ==
    IF Len(fs) > MaxFiles THEN "Maximum 10 resumes allowed per session"
    ELSE IF \E j \in 1..Len(fs) : fs[j][2] > MaxBytes
    THEN "One or more files exceed 5MB limit"
    ELSE ""

AppInit ==
    /\ resume_files = <<>>
    /\ jd = <<>>
    /\ i = 0
    /\ pc = "sidebar"
    /\ results = <<>>
    /\ state = Idle
    /\ files = {}
    /\ tmp_path = 0
    /\ exc = NoExc
    /\ trace = <<>>
    /\ session_state = NoResults
    /\ jd_files = {}
    /\ invoked = <<>>
    /\ runs = 0
    /\ shown = NoMessages
    /\ upload = Summary(<<>>)

\* a script run down to the sidebar's end: jd_text, from the text area or from
\* the uploaded PDF through a temporary file
Sidebar ==
    /\ pc = "sidebar"
    /\ runs < MaxRuns
    /\ \E in \in JDInputs :
         LET failed == in.file /\ ~(in.written /\ in.loaded)
         IN  /\ jd' = IF in.method = "Text" THEN in.text
                      ELSE IF in.file /\ ~failed THEN in.text
                      ELSE <<>>
             /\ jd_files' = IF failed THEN jd_files \cup {runs + 1} ELSE jd_files
             /\ shown' = [sidebar |-> IF ~in.file THEN ""
                                      ELSE IF failed THEN "Error extracting JD"
                                      ELSE "JD extracted successfully!",
                          main |-> ""]
    /\ pc' = "main"
    /\ UNCHANGED <<resume_files, i, state, results, files, tmp_path, exc, trace>>
    /\ UNCHANGED <<session_state, invoked, runs, upload>>

\* the rest of the script run: the uploader, the button and its handler
Main ==
    /\ pc = "main"
    /\ \E key \in {<<>>, <<"key">>}, fs \in Uploads, clicked \in BOOLEAN,
          script \in Scripts :
         LET screen_button == clicked /\ Truthy(key) /\ Truthy(jd) /\ fs # <<>>
             refused == validate(fs)
             batch == process_multiple_resumes(jd, fs, script)
         IN  /\ upload' = Summary(fs)
             /\ IF ~screen_button
                THEN /\ shown' = shown
                     /\ UNCHANGED <<session_state, invoked>>
                ELSE IF refused # ""
                THEN /\ shown' = [shown EXCEPT !.main = refused]
                     /\ UNCHANGED <<session_state, invoked>>
                ELSE /\ invoked' = Append(invoked, Summary(fs))
                     /\ session_state' = IF batch.raised THEN session_state
                                         ELSE Stored(batch.results)
                     /\ shown' = [shown EXCEPT !.main =
                                    IF batch.raised THEN "Error during screening"
                                    ELSE "Screening complete!"]
    /\ runs' = runs + 1
    /\ pc' = "sidebar"
    /\ UNCHANGED <<resume_files, jd, i, state, results, files, tmp_path, exc, trace>>
    /\ UNCHANGED jd_files

AppNext ==
    \/ Sidebar
    \/ Main

AppSpec == AppInit /\ [][AppNext]_vars

(* ------------------------------ properties ---------------------------- *)

\* the nodes entered so far in the current run, in order
Nodes == [j \in 1..Len(trace) |-> trace[j].node]

\* text occurs in entry as a contiguous part
Includes(entry, text) ==
    \E a \in 0..(Len(entry) - Len(text)) :
        SubSeq(entry, a + 1, a + Len(text)) = text

\* v == 0
IsZero(v) == v.k = "num" /\ v.n = 0

\* v is an integer-valued number with 0 <= v <= 100
IsPercent(v) == v.k = "num" /\ v.n % v.d = 0 /\ 0 <= v.n /\ v.n <= 100 * v.d

\* the run of the current resume has delivered its record
Delivered == pc = "finally" /\ ~exc.raised

\* C1: every output record with a non-empty error has score 0 and a reasons
\* entry that includes the error text
C1_FailedRecordExplainsError ==
    \A j \in 1..Len(results) :
        Truthy(results[j].error) =>
            /\ IsZero(results[j].score)
            /\ \E q \in 1..Len(results[j].reasons) :
                   Includes(results[j].reasons[q], results[j].error)

\* C2: no exception leaves process_resume: the run of a resume never reaches
\* the batch runner's finally with an exception in flight
C2_ProcessResumeNeverRaises == ~(pc = "finally" /\ exc.raised)

\* C3: when a resume's processing is over its record has been appended, the
\* returned list has one record per input pair, and the j-th record is the
\* j-th input's
C3_OneRecordPerInput ==
    /\ pc = "finally" => Len(results) = i
    /\ pc = "returned" => Len(results) = Len(resume_files)
    /\ \A j \in 1..Len(results) : results[j].candidate = resume_files[j][1]

\* C4: the score of the final state and of every output record is an
\* integer-valued number between 0 and 100
C4_ScoreIsPercent ==
    /\ (pc = "END" \/ Delivered) => IsPercent(state.score)
    /\ \A j \in 1..Len(results) : IsPercent(results[j].score)

\* C5: once a node leaves error non-empty, every later node of the run leaves
\* error with that value, and the record carries it
C5_ErrorIsSticky ==
    \A a \in 1..Len(trace) :
        Truthy(trace[a].out.error) =>
            /\ \A b \in a..Len(trace) : trace[b].out.error = trace[a].out.error
            /\ Delivered => results[Len(results)].error = trace[a].out.error

C5_Witness ==
    /\ Delivered
    /\ Len(trace) = 5
    /\ Truthy(trace[1].out.error)

\* C6: the nodes of a run are entered in the order load_resume, extract_data,
\* match_jd, score_candidate, then suggest_improvements at most once, and a
\* run that is over has reached END with its record
C6_StagesInOrderToEnd ==
    LET order == <<"load_resume", "extract_data", "match_jd", "score_candidate",
                   "suggest_improvements">>
    IN  /\ Len(trace) <= 5
        /\ Nodes = SubSeq(order, 1, Len(trace))
        /\ pc \in {"END", "finally"} => Len(trace) >= 4
        /\ pc = "finally" => ~exc.raised

\* C7: suggest_improvements is entered exactly when score < 50 after
\* score_candidate; otherwise the run goes straight to END and the record
\* carries the suggestions score_candidate left
C7_SuggestIffLowScore ==
    (Len(trace) >= 4 /\ pc # "route") =>
        LET scored == trace[4].out
            low == scored.score.k = "num" /\ scored.score.n < 50 * scored.score.d
            entered == pc = "suggest_improvements" \/ Len(trace) = 5
        IN  /\ entered <=> low
            /\ (~low /\ ~exc.raised) => pc \in {"END", "finally"} /\ state = scored
            /\ (~low /\ Delivered) =>
                   results[Len(results)].suggestions = scored.suggestions

C7_Witness ==
    /\ Delivered
    /\ Len(trace) = 4
    /\ results[Len(results)].score = Num(82, 1)
    /\ results[Len(results)].suggestions = <<>>
    /\ results[Len(results)].error = <<>>

\* C8: when score_candidate left score < 50 and no suggestions,
\* suggest_improvements leaves one templated entry for each of the first three
\* gaps in their order, or the generic suggestion when there are no gaps
C8_SuggestionsFromGaps ==
    (Len(trace) = 5 /\ ~exc.raised /\ trace[4].out.suggestions = <<>>) =>
        LET md == trace[4].out.match_data
            gaps == IF "gaps" \in md.keys THEN md.gaps ELSE <<>>
            after == trace[5].out.suggestions
        IN  /\ after # <<>>
            /\ gaps # <<>> =>
                 /\ Len(after) = Min(3, Len(gaps))
                 /\ \A j \in 1..Len(after) :
                        after[j] = <<"Develop skills/experience in: ", gaps[j]>>
            /\ gaps = <<>> =>
                 after = << <<"Consider gaining more relevant experience">> >>
            /\ gaps = <<"Kubernetes", "AWS", "Leadership", "Security", "Testing">> =>
                 after = << <<"Develop skills/experience in: ", "Kubernetes">>,
                            <<"Develop skills/experience in: ", "AWS">>,
                            <<"Develop skills/experience in: ", "Leadership">> >>

C8_Witness ==
    /\ Len(trace) = 5
    /\ ~exc.raised
    /\ trace[4].out.suggestions = <<>>
    /\ trace[4].out.match_data.gaps =
           <<"Kubernetes", "AWS", "Leadership", "Security", "Testing">>
    /\ Len(state.suggestions) = 3

\* suggest_improvements applied to what suggest_improvements returned
Again(r) == IF r.exc.raised THEN r ELSE suggest_improvements(r.st)

\* C9: applying suggest_improvements twice gives what applying it once gives,
\* and a state whose suggestions is non-empty is returned as it is
C9_SuggestIdempotent ==
    LET once == suggest_improvements(state)
    IN  /\ Again(once) = once
        /\ Truthy(state.suggestions) => once = [exc |-> NoExc, st |-> state]

C9_Witness ==
    /\ pc = "END"
    /\ Len(trace) = 5
    /\ trace[4].out.suggestions = <<>>
    /\ Len(state.suggestions) = 2

\* C10: score_candidate entered with error set makes no oracle call and
\* changes only score, reasons and suggestions, to 0,
\* ["Processing failed: " + error] and []
C10_ScoreAfterError ==
    (Len(trace) >= 4 /\ Truthy(trace[3].out.error)) =>
        /\ trace[4].called = <<>>
        /\ trace[4].out =
               [trace[3].out EXCEPT
                   !.score = Num(0, 1),
                   !.reasons = << <<"Processing failed: ">> \o trace[3].out.error >>,
                   !.suggestions = <<>>]

C10_Witness ==
    /\ Len(trace) >= 4
    /\ Truthy(trace[3].out.error)
    /\ trace[4].out.reasons =
           << <<"Processing failed: ", "Matching error: ", "quota exceeded">> >>

\* the collaborator calls of the current run, in order
RECURSIVE CallsUpTo(_)
CallsUpTo(n) == IF n = 0 THEN <<>> ELSE CallsUpTo(n - 1) \o trace[n].called
Calls == CallsUpTo(Len(trace))

\* text starts with the tag
Tagged(text, tag) == Len(text) >= 1 /\ text[1] = tag

\* the node entered n-th in the current run called the oracle and the
\* invocation raised msg
InvokeRaised(n, msg) ==
    /\ Len(trace) >= n
    /\ trace[n].called # <<>>
    /\ trace[n].called[1].raised
    /\ trace[n].called[1].msg = msg

\* the record of the resume whose run has just delivered
Last == results[Len(results)]

\* C11: when score_candidate is entered without error and the scoring chain's
\* invocation raises, error is tagged "Candidate scoring error" and score is 0
C11_ScoringFailureTag ==
    \A m \in ChainFailures :
        (InvokeRaised(4, m) /\ ~Truthy(trace[3].out.error)) =>
            /\ Tagged(trace[4].out.error, "Candidate scoring error: ")
            /\ IsZero(trace[4].out.score)

\* C12: in extract_data and match_jd an answer that cannot be decoded gives
\* the tag "Extraction error" / "Matching error", a failed oracle call gives
\* "Data extraction error" / "JD matching error"
C12_TagsTellFailureKinds ==
    /\ InvokeRaised(2, ParseMsg) => Tagged(trace[2].out.error, "Extraction error: ")
    /\ InvokeRaised(2, OracleMsg) =>
           Tagged(trace[2].out.error, "Data extraction error: ")
    /\ InvokeRaised(3, ParseMsg) => Tagged(trace[3].out.error, "Matching error: ")
    /\ InvokeRaised(3, OracleMsg) => Tagged(trace[3].out.error, "JD matching error: ")

\* C13: after a failed extraction resume_data is the empty object, after a
\* failed matching match_data is the empty object
C13_FailedStageLeavesEmptyObject ==
    \A m \in ChainFailures :
        /\ InvokeRaised(2, m) => trace[2].out.resume_data = EmptyResumeData
        /\ InvokeRaised(3, m) => trace[3].out.match_data = EmptyMatchData

\* the node entered n-th got a decoded object that lacks one of the fields
LacksField(n, fields) ==
    /\ Len(trace) >= n
    /\ trace[n].called # <<>>
    /\ ~trace[n].called[1].raised
    /\ trace[n].called[1].kind = "dict"
    /\ ~(fields \subseteq trace[n].called[1].keys)

\* C14: an answer that lacks one of its named fields leaves error non-empty
C14_MissingFieldIsFailure ==
    /\ LacksField(4, {"score", "reasons", "suggestions"}) => Truthy(trace[4].out.error)
    /\ LacksField(3, {"matches", "gaps"}) => Truthy(trace[3].out.error)
    /\ LacksField(2, {"skills", "experience", "education"}) =>
           Truthy(trace[2].out.error)

\* C15: empty or whitespace-only text gives exactly the error "Empty PDF or
\* failed to extract text", an empty resume_text and a record with score 0,
\* that error and the one reason; a failing reader gives the tag "PDF loading
\* error" and an empty resume_text; after load_resume error is empty exactly
\* when resume_text is not
C15_LoadResumeErrors ==
    Len(trace) >= 1 =>
        LET heard == trace[1].called[1]
            loaded == trace[1].out
            empty == <<"Empty PDF or failed to extract text">>
        IN  /\ (~heard.raised /\ \A j \in 1..Len(heard.text) : heard.text[j] \in {" ", "\n"}) =>
                 /\ loaded.error = empty
                 /\ loaded.resume_text = <<>>
                 /\ Delivered =>
                      /\ IsZero(Last.score)
                      /\ Last.error = empty
                      /\ Last.reasons = << <<"Processing failed: ">> \o empty >>
            /\ heard.raised =>
                 /\ Tagged(loaded.error, "PDF loading error: ")
                 /\ loaded.resume_text = <<>>
            /\ (loaded.error = <<>>) <=> (loaded.resume_text # <<>>)

C15_Witness ==
    /\ Delivered
    /\ trace[1].called[1].text = <<" ", "\n">>
    /\ Last.reasons =
           << <<"Processing failed: ", "Empty PDF or failed to extract text">> >>

\* C16: extract_data and match_jd entered with error set return the state
\* they were given
C16_ShortCircuit ==
    /\ (Len(trace) >= 2 /\ Truthy(trace[1].out.error)) => trace[2].out = trace[1].out
    /\ (Len(trace) >= 3 /\ Truthy(trace[2].out.error)) => trace[3].out = trace[2].out

C16_Witness ==
    /\ Len(trace) >= 3
    /\ Truthy(trace[1].out.error)
    /\ trace[3].out = trace[1].out

\* the place of a collaborator call in a run
Rank(who) ==
    CASE who = "reader" -> 1
      [] who = "extraction" -> 2
      [] who = "matching" -> 3
      [] who = "scoring" -> 4

\* C17: in a run the reader, the extraction, the matching and the scoring
\* oracle are called at most once each and in that order, and no node entered
\* after error became non-empty calls the oracle
C17_SingleAttempt ==
    /\ \A a, b \in 1..Len(Calls) :
           a < b => Rank(Calls[a].who) < Rank(Calls[b].who)
    /\ \A a, b \in 1..Len(trace) :
           (a < b /\ Truthy(trace[a].out.error)) => trace[b].called = <<>>

C17_Witness ==
    /\ Delivered
    /\ Len(Calls) = 4
    /\ Calls[4].raised

\* C18: no temporary file is left when a resume's processing is over, nor
\* when the batch has returned or raised
C18_TempFileReleased == pc \in {"for", "returned", "raised"} => files = {}

C20_RecordProjection ==
    Delivered =>
        LET md == state.match_data
        IN  /\ DOMAIN Last = {"candidate", "score", "reasons", "suggestions",
                              "matches", "gaps", "error"}
            /\ Last.candidate = resume_files[i][1]
            /\ Last.score = state.score
            /\ Last.reasons = state.reasons
            /\ Last.suggestions = state.suggestions
            /\ Last.error = state.error
            /\ Last.matches = (IF "matches" \in md.keys THEN md.matches ELSE <<>>)
            /\ Last.gaps = (IF "gaps" \in md.keys THEN md.gaps ELSE <<>>)

C20_Witness ==
    /\ Delivered
    /\ Last.matches = <<"Python">>
    /\ Last.gaps = <<"Kubernetes", "AWS">>
    /\ Last.candidate = "bob.pdf"

\* the gaps of a match_data, [] when it has none
GapsOf(md) == IF "gaps" \in md.keys THEN md.gaps ELSE <<>>

Exceeds(u) == u.count > 10 \/ u.largest > 5 * 1024 * 1024

\* C21: process_multiple_resumes is only ever invoked with at most 10 resumes
\* of at most 5MB each, and a script run whose upload exceeds a limit starts
\* no batch and leaves the stored results as they are
C21_AdmissionControl ==
    [][ /\ \A c \in 1..Len(invoked') : ~Exceeds(invoked'[c])
        /\ (pc = "main" /\ Exceeds(upload')) =>
               /\ invoked' = invoked
               /\ session_state' = session_state ]_vars

C21_Witness ==
    /\ shown.main = "One or more files exceed 5MB limit"
    /\ session_state.present
    /\ Len(invoked) = 1
    /\ invoked[1].count = 10
    /\ invoked[1].largest = 5 * 1024 * 1024

\* C23: when the handling of an uploaded job description has finished, with
\* success or with an error, no temporary file of it remains
C23_JDTempFileReleased == jd_files = {}

====
